---- MODULE Spec2Model ----
(***************************************************************************)
(* Model of the in-memory job store of the Titanic prediction service      *)
(* (app/services/job_manager.py), of the Job model (app/models/job.py) and *)
(* of the asynchronous request path of app/main.py.                        *)
(*                                                                         *)
(* Every JobManager method is split at the points where another thread     *)
(* can run: the work done before `with self._lock`, the acquisition of the *)
(* lock, and each field assignment made while the lock is held.            *)
(* Time is an integer clock that counts hours; utcnow() reads it.          *)
(***************************************************************************)
EXTENDS Integers, FiniteSets, Sequences, TLC

\* ---------------------------------------------------------------- bounds
MaxTime == 2

\* --------------------------------------------------------------- domains
JobIds == {"a", "b"}
Threads == {"t1", "t2", "t3"}
NoThread == "free"
\* the thread that drives the job manager in Spec
Caller == "t1"

PENDING == "pending"
PROCESSING == "processing"
COMPLETED == "completed"
FAILED == "failed"
JobStatus == {PENDING, PROCESSING, COMPLETED, FAILED}

\* Optional[X]: the empty set is None, {x} is the value x.
None == {}
Some(x) == {x}
Val(o) == CHOOSE x \in o : TRUE

JobResult(survived, probability) == [survived |-> survived, probability |-> probability]
\* probability is kept in hundredths
JobResults == {JobResult(1, 82), JobResult(0, 13)}
ErrorMessages == {"model unavailable"}
MaxAges == {0, 1}

Job(id, status, result, error, created_at, updated_at) ==
    [id |-> id, status |-> status, result |-> result, error |-> error,
     created_at |-> created_at, updated_at |-> updated_at]

\* (variant: updated_at is left at the epoch instead of now)
NewJobStaleUpdate(job_id, now) == Job(job_id, PENDING, None, None, now, 0)

\* Job(id=job_id, status=JobStatus.PENDING, created_at=now, updated_at=now)
NewJob(job_id, now) == Job(job_id, PENDING, None, None, now, now)

VARIABLES jobs, lock, clock, pc, local, fresh, created, app

\* jobs: JobManager.jobs; lock: JobManager._lock (its holder); clock: the wall
\* clock; pc, local: where each thread is and the frame of its call;
\* fresh: the id whose create_job was the latest call to take effect on the
\* store, None once any other call has taken effect (history only);
\* created: the ids a create_job has ever stored (history only).
\* app: where each thread is in the code of main.py that calls the job manager.
vars == <<jobs, lock, clock, pc, local, fresh, created, app>>

\* the variables of the job manager and of the calls into it
store == <<jobs, lock, clock, pc, local, fresh, created>>

\* (variant: a missing key yields a default job, as a defaultdict would)
DictGetDefault(d, job_id) ==
    IF job_id \in DOMAIN d THEN Some(d[job_id])
                            ELSE Some(Job(job_id, PENDING, None, None, 0, 0))

\* dict.get(job_id): the stored job, or None
DictGet(d, job_id) == IF job_id \in DOMAIN d THEN Some(d[job_id]) ELSE None

\* (variant: d.setdefault(job_id, job), an existing entry is kept)
DictSetDefault(d, job_id, job) ==
    [i \in (DOMAIN d) \cup {job_id} |-> IF i \in DOMAIN d THEN d[i] ELSE job]

\* (variant: d = {job_id: job}, the other entries are dropped)
DictReplace(d, job_id, job) == [i \in {job_id} |-> job]

\* d[job_id] = job
DictSet(d, job_id, job) == [i \in (DOMAIN d) \cup {job_id} |-> IF i = job_id THEN job ELSE d[i]]

\* del d[k] for every k in ks
DictDel(d, ks) == [i \in (DOMAIN d) \ ks |-> d[i]]

\* The frame of a call: its arguments, its locals and the value it returned.
\* When the call returns the arguments and locals are dropped (Returned).
Frame ==
    [op |-> "none", job_id |-> "", status |-> PENDING, result |-> None, error |-> None,
     max_age_hours |-> 0, job |-> None, cutoff_time |-> 0, jobs_to_remove |-> {},
     ret |-> None, count |-> 0,
     \* history of the call, for the caller's record only
     after_create |-> FALSE, replaced |-> None, removed |-> {}]

Returned(f, ret, count) ==
    [Frame EXCEPT !.op = f.op, !.job_id = f.job_id, !.jobs_to_remove = f.jobs_to_remove,
                  !.cutoff_time = f.cutoff_time, !.ret = ret, !.count = count]

\* The frame of a request handler of main.py and of the background task it adds.
\* job is the Job that get_job returned to get_job_status: a reference to the
\* object the store holds, written here as the key it is stored under; body
\* is what the response carried.
AppFrame ==
    [pc |-> "idle", job_id |-> "", job_result |-> None, error |-> None, status_code |-> 0,
     job |-> None, body |-> None]

Init ==
    /\ jobs = [i \in {} |-> Job("", PENDING, None, None, 0, 0)]
    /\ lock = NoThread
    /\ clock = 0
    /\ pc = [t \in Threads |-> "idle"]
    /\ local = [t \in Threads |-> Frame]
    /\ fresh = None
    /\ created = {}
    /\ app = [t \in Threads |-> AppFrame]

\* the wall clock advances
Tick ==
    /\ clock < MaxTime
    /\ clock' = clock + 1
    /\ UNCHANGED <<jobs, lock, pc, local, fresh, created, app>>

\* ------------------------------------------------------------ create_job
CallCreate(t, job_id) ==
    /\ pc[t] = "idle"
    /\ pc' = [pc EXCEPT ![t] = "create_build"]
    /\ local' = [local EXCEPT ![t] = [Frame EXCEPT !.op = "create", !.job_id = job_id]]
    /\ UNCHANGED <<jobs, lock, clock, fresh, created>>

\* now = utcnow(); job = Job(id, PENDING, created_at=now, updated_at=now)
CreateBuild(t) ==
    /\ pc[t] = "create_build"
    /\ local' = [local EXCEPT ![t].job = Some(NewJob(local[t].job_id, clock))]
    /\ pc' = [pc EXCEPT ![t] = "create_lock"]
    /\ UNCHANGED <<jobs, lock, clock, fresh, created>>

CreateAcquire(t) ==
    /\ pc[t] = "create_lock"
    /\ lock = NoThread
    /\ lock' = t
    /\ pc' = [pc EXCEPT ![t] = "create_insert"]
    /\ UNCHANGED <<jobs, clock, local, fresh, created>>

\* self.jobs[job_id] = job; the lock is released; return job
CreateInsert(t) ==
    /\ pc[t] = "create_insert"
    /\ jobs' = DictSet(jobs, local[t].job_id, Val(local[t].job))
    /\ lock' = NoThread
    /\ local' = [local EXCEPT ![t] = [Returned(local[t], local[t].job, 0) EXCEPT !.replaced =
                    IF local[t].job_id \in DOMAIN jobs THEN Some(jobs[local[t].job_id].status) ELSE None]]
    /\ fresh' = Some(local[t].job_id)
    /\ created' = created \cup {local[t].job_id}
    /\ pc' = [pc EXCEPT ![t] = "idle"]
    /\ UNCHANGED clock

\* --------------------------------------------------------------- get_job
CallGet(t, job_id) ==
    /\ pc[t] = "idle"
    /\ pc' = [pc EXCEPT ![t] = "get_lock"]
    /\ local' = [local EXCEPT ![t] = [Frame EXCEPT !.op = "get", !.job_id = job_id]]
    /\ UNCHANGED <<jobs, lock, clock, fresh, created>>

GetAcquire(t) ==
    /\ pc[t] = "get_lock"
    /\ lock = NoThread
    /\ lock' = t
    /\ pc' = [pc EXCEPT ![t] = "get_read"]
    /\ UNCHANGED <<jobs, clock, local, fresh, created>>

\* return self.jobs.get(job_id); the lock is released
GetRead(t) ==
    /\ pc[t] = "get_read"
    /\ local' = [local EXCEPT ![t] = [Returned(local[t], DictGet(jobs, local[t].job_id), 0)
                                       EXCEPT !.after_create = (fresh = Some(local[t].job_id))]]
    /\ lock' = NoThread
    /\ fresh' = None
    /\ pc' = [pc EXCEPT ![t] = "idle"]
    /\ UNCHANGED <<jobs, clock, created>>

\* (variant of Lookup: a missing job is stored anew instead of returning None)
LookupRecreate(t, from, to) ==
    /\ pc[t] = from
    /\ lock = NoThread
    /\ lock' = t
    /\ pc' = [pc EXCEPT ![t] = to]
    /\ jobs' = IF local[t].job_id \in DOMAIN jobs THEN jobs
               ELSE [i \in (DOMAIN jobs) \cup {local[t].job_id} |->
                        IF i \in DOMAIN jobs THEN jobs[i]
                        ELSE Job(i, PENDING, None, None, clock, clock)]
    /\ UNCHANGED <<clock, local, fresh, created>>

\* ------------------------------------------- the three writers of one job
\* with self._lock: job = self.jobs.get(job_id); if job: ... ; return None
Lookup(t, from, to) ==
    /\ pc[t] = from
    /\ lock = NoThread
    /\ IF local[t].job_id \in DOMAIN jobs
       THEN /\ lock' = t
            /\ pc' = [pc EXCEPT ![t] = to]
            /\ UNCHANGED <<local, fresh, created>>
       ELSE /\ lock' = NoThread
            /\ pc' = [pc EXCEPT ![t] = "idle"]
            /\ local' = [local EXCEPT ![t] = Returned(local[t], None, 0)]
            /\ fresh' = None
    /\ UNCHANGED <<jobs, clock, created>>

\* job.status = status
WriteStatus(t, from, to, status) ==
    /\ pc[t] = from
    /\ jobs' = [jobs EXCEPT ![local[t].job_id].status = status]
    /\ pc' = [pc EXCEPT ![t] = to]
    /\ UNCHANGED <<lock, clock, local, fresh, created>>

\* job.updated_at = utcnow(); return job; the lock is released
WriteTime(t, from) ==
    /\ pc[t] = from
    /\ jobs' = [jobs EXCEPT ![local[t].job_id].updated_at = clock]
    /\ local' = [local EXCEPT ![t] = Returned(local[t], Some(jobs'[local[t].job_id]), 0)]
    /\ lock' = NoThread
    /\ fresh' = None
    /\ pc' = [pc EXCEPT ![t] = "idle"]
    /\ UNCHANGED <<clock, created>>

\* ----------------------------------------------------- update_job_status
CallUpdate(t, job_id, status) ==
    /\ pc[t] = "idle"
    /\ pc' = [pc EXCEPT ![t] = "upd_lookup"]
    /\ local' = [local EXCEPT ![t] = [Frame EXCEPT !.op = "setStatus", !.job_id = job_id,
                                                   !.status = status]]
    /\ UNCHANGED <<jobs, lock, clock, fresh, created>>

UpdLookup(t) == Lookup(t, "upd_lookup", "upd_status")

UpdStatus(t) == WriteStatus(t, "upd_status", "upd_time", local[t].status)

UpdTime(t) == WriteTime(t, "upd_time")

\* ---------------------------------------------------------- complete_job
CallComplete(t, job_id, result) ==
    /\ pc[t] = "idle"
    /\ pc' = [pc EXCEPT ![t] = "comp_lookup"]
    /\ local' = [local EXCEPT ![t] = [Frame EXCEPT !.op = "complete", !.job_id = job_id,
                                                   !.result = Some(result)]]
    /\ UNCHANGED <<jobs, lock, clock, fresh, created>>

CompLookup(t) == Lookup(t, "comp_lookup", "comp_status")

CompStatus(t) == WriteStatus(t, "comp_status", "comp_result", COMPLETED)

\* job.result = result
CompResult(t) ==
    /\ pc[t] = "comp_result"
    /\ jobs' = [jobs EXCEPT ![local[t].job_id].result = local[t].result]
    /\ pc' = [pc EXCEPT ![t] = "comp_time"]
    /\ UNCHANGED <<lock, clock, local, fresh, created>>

CompTime(t) == WriteTime(t, "comp_time")

\* -------------------------------------------------------------- fail_job
CallFail(t, job_id, error) ==
    /\ pc[t] = "idle"
    /\ pc' = [pc EXCEPT ![t] = "fail_lookup"]
    /\ local' = [local EXCEPT ![t] = [Frame EXCEPT !.op = "fail", !.job_id = job_id,
                                                   !.error = Some(error)]]
    /\ UNCHANGED <<jobs, lock, clock, fresh, created>>

FailLookup(t) == Lookup(t, "fail_lookup", "fail_status")

FailStatus(t) == WriteStatus(t, "fail_status", "fail_error", FAILED)

\* job.error = error
FailError(t) ==
    /\ pc[t] = "fail_error"
    /\ jobs' = [jobs EXCEPT ![local[t].job_id].error = local[t].error]
    /\ pc' = [pc EXCEPT ![t] = "fail_time"]
    /\ UNCHANGED <<lock, clock, local, fresh, created>>

FailTime(t) == WriteTime(t, "fail_time")

\* ------------------------------------------------------ cleanup_old_jobs
CallCleanup(t, max_age_hours) ==
    /\ pc[t] = "idle"
    /\ pc' = [pc EXCEPT ![t] = "clean_cutoff"]
    /\ local' = [local EXCEPT ![t] = [Frame EXCEPT !.op = "evict", !.max_age_hours = max_age_hours]]
    /\ UNCHANGED <<jobs, lock, clock, fresh, created>>

\* cutoff_time = utcnow() - timedelta(hours=max_age_hours)
CleanCutoff(t) ==
    /\ pc[t] = "clean_cutoff"
    /\ local' = [local EXCEPT ![t].cutoff_time = clock - local[t].max_age_hours]
    /\ pc' = [pc EXCEPT ![t] = "clean_scan"]
    /\ UNCHANGED <<jobs, lock, clock, fresh, created>>

\* (variant: <= instead of <)
IsOldOrEqual(job, cutoff_time) == job.created_at <= cutoff_time

\* (variant: only finished jobs are swept)
IsOldAndDone(job, cutoff_time) ==
    job.created_at < cutoff_time /\ job.status \in {COMPLETED, FAILED}

\* if job.created_at < cutoff_time
IsOld(job, cutoff_time) == job.created_at < cutoff_time

\* with self._lock: for job_id, job in self.jobs.items(): ... jobs_to_remove.append(job_id)
CleanScan(t) ==
    /\ pc[t] = "clean_scan"
    /\ lock = NoThread
    /\ lock' = t
    /\ local' = [local EXCEPT ![t].jobs_to_remove =
                    {i \in DOMAIN jobs : IsOld(jobs[i], local[t].cutoff_time)}]
    /\ pc' = [pc EXCEPT ![t] = "clean_del"]
    /\ UNCHANGED <<jobs, clock, fresh, created>>

\* for job_id in jobs_to_remove: del self.jobs[job_id]; return len(jobs_to_remove)
CleanDelete(t) ==
    /\ pc[t] = "clean_del"
    /\ jobs' = DictDel(jobs, local[t].jobs_to_remove)
    /\ lock' = NoThread
    /\ local' = [local EXCEPT ![t] = [Returned(local[t], None, Cardinality(local[t].jobs_to_remove))
                    EXCEPT !.removed = {jobs[i].status : i \in local[t].jobs_to_remove}]]
    /\ fresh' = None
    /\ pc' = [pc EXCEPT ![t] = "idle"]
    /\ UNCHANGED <<clock, created>>

\* ----------------------------------------------------------------- Spec
\* One caller drives the job manager: any method, any argument, in any order.
Call(t) ==
    \/ \E job_id \in JobIds : CallCreate(t, job_id)
    \/ \E job_id \in JobIds : CallGet(t, job_id)
    \/ \E job_id \in JobIds, status \in JobStatus : CallUpdate(t, job_id, status)
    \/ \E job_id \in JobIds, result \in JobResults : CallComplete(t, job_id, result)
    \/ \E job_id \in JobIds, error \in ErrorMessages : CallFail(t, job_id, error)
    \/ \E max_age_hours \in MaxAges : CallCleanup(t, max_age_hours)

Step(t) ==
    \/ CreateBuild(t) \/ CreateAcquire(t) \/ CreateInsert(t)
    \/ GetAcquire(t) \/ GetRead(t)
    \/ UpdLookup(t) \/ UpdStatus(t) \/ UpdTime(t)
    \/ CompLookup(t) \/ CompStatus(t) \/ CompResult(t) \/ CompTime(t)
    \/ FailLookup(t) \/ FailStatus(t) \/ FailError(t) \/ FailTime(t)
    \/ CleanCutoff(t) \/ CleanScan(t) \/ CleanDelete(t)

Next ==
    \/ Tick
    \/ Call(Caller) /\ UNCHANGED app
    \/ Step(Caller) /\ UNCHANGED app

Spec == Init /\ [][Next]_vars

\* ----------------------------------------------------------- SpecCreate
\* Every thread calls create_job once, each with an id of its own.
CreateId(t) == CASE t = "t1" -> "a" [] t = "t2" -> "b" [] OTHER -> "c"

CreateOnce(t) == local[t].op = "none" /\ CallCreate(t, CreateId(t)) /\ UNCHANGED app

CreateStep(t) == (CreateBuild(t) \/ CreateAcquire(t) \/ CreateInsert(t)) /\ UNCHANGED app

NextCreate ==
    \/ Tick
    \/ \E t \in Threads : CreateOnce(t)
    \/ \E t \in Threads : CreateStep(t)

SpecCreate == Init /\ [][NextCreate]_vars

\* ------------------------------------------------------ MLModel.predict
\* prob = predict_proba(X)[0, 1]; prediction = 1 if prob >= 0.5 else 0
MLPredict(prob) == [prediction |-> IF prob >= 50 THEN 1 ELSE 0, probability |-> prob]

\* the probabilities the classifier returns here, in hundredths
Probabilities == {13, 82}

\* -------------------------------------------------------- predict_async
\* job_id = str(uuid.uuid4()): an id that no request was given before
Uuid4 == JobIds \ (created \cup {app[u].job_id : u \in Threads})

\* job_manager.create_job(job_id)
PredictAsync(t) ==
    /\ app[t].pc = "idle"
    /\ \E job_id \in Uuid4 :
        /\ CallCreate(t, job_id)
        /\ app' = [app EXCEPT ![t] = [AppFrame EXCEPT !.pc = "async_create", !.job_id = job_id]]

\* background_tasks.add_task(process_prediction_job, ...); return {"job_id": job_id}
AsyncRespond(t) ==
    /\ app[t].pc = "async_create"
    /\ pc[t] = "idle"
    /\ app' = [app EXCEPT ![t].pc = "task_start", ![t].status_code = 200]
    /\ UNCHANGED store

\* ----------------------------------------------- process_prediction_job
\* (variant: the exception is not caught, the task ends without fail_job)
TaskFailUncaught(t) ==
    /\ app[t].pc = "task_except"
    /\ app' = [app EXCEPT ![t] = AppFrame]
    /\ UNCHANGED store

\* (variant: the task does not mark the job as processing)
TaskStartNoUpdate(t) ==
    /\ app[t].pc = "task_start"
    /\ app' = [app EXCEPT ![t].pc = "task_update"]
    /\ UNCHANGED store

\* job_manager.update_job_status(job_id, JobStatus.PROCESSING)
TaskStart(t) ==
    /\ app[t].pc = "task_start"
    /\ CallUpdate(t, app[t].job_id, PROCESSING)
    /\ app' = [app EXCEPT ![t].pc = "task_update"]

\* time.sleep(1); result = ml_model.predict(features); job_result = JobResult(...)
\* Either a result comes back or one of the three raises.
TaskPredict(t) ==
    /\ app[t].pc = "task_update"
    /\ pc[t] = "idle"
    /\ \/ \E prob \in Probabilities :
            app' = [app EXCEPT ![t].pc = "task_result",
                               ![t].job_result = Some(JobResult(MLPredict(prob).prediction,
                                                                MLPredict(prob).probability))]
       \/ \E e \in ErrorMessages :
            app' = [app EXCEPT ![t].pc = "task_except", ![t].error = Some(e)]
    /\ UNCHANGED store

\* job_manager.complete_job(job_id, job_result)
TaskComplete(t) ==
    /\ app[t].pc = "task_result"
    /\ CallComplete(t, app[t].job_id, Val(app[t].job_result))
    /\ app' = [app EXCEPT ![t].pc = "task_complete"]

\* except Exception as e: job_manager.fail_job(job_id, str(e))
TaskFail(t) ==
    /\ app[t].pc = "task_except"
    /\ CallFail(t, app[t].job_id, Val(app[t].error))
    /\ app' = [app EXCEPT ![t].pc = "task_fail"]

\* the background task returns
TaskEnd(t) ==
    /\ app[t].pc \in {"task_complete", "task_fail"}
    /\ pc[t] = "idle"
    /\ app' = [app EXCEPT ![t] = AppFrame]
    /\ UNCHANGED store

\* ------------------------------------------------------ get_job_status
\* job = job_manager.get_job(job_id); if job is None: raise HTTPException(404); return job
GetJobStatusResponse(ret) ==
    IF ret = None THEN [status_code |-> 404, body |-> None]
                  ELSE [status_code |-> 200, body |-> ret]

\* job = job_manager.get_job(job_id)
GetJobStatus(t, job_id) ==
    /\ app[t].pc = "idle"
    /\ CallGet(t, job_id)
    /\ app' = [app EXCEPT ![t] = [AppFrame EXCEPT !.pc = "status_get", !.job_id = job_id]]

\* if job is None: raise HTTPException(status_code=404); return job
\* get_job hands out self.jobs.get(job_id), the stored object itself.
StatusReturn(t) ==
    /\ app[t].pc = "status_get"
    /\ pc[t] = "idle"
    /\ app' = [app EXCEPT ![t] =
                 IF local[t].ret = None
                 THEN [AppFrame EXCEPT !.status_code = GetJobStatusResponse(local[t].ret).status_code]
                 ELSE [app[t] EXCEPT !.pc = "status_return", !.job = Some(local[t].job_id)]]
    /\ UNCHANGED store

\* the Job object that the reference job of thread t points to, as it is now
Held(t) == jobs[Val(app[t].job)]

\* response_model=Job: the returned object is read when the response is
\* written, after get_job_status has returned and without the lock
StatusSerialize(t) ==
    /\ app[t].pc = "status_return"
    /\ app' = [app EXCEPT ![t] = [AppFrame EXCEPT !.status_code = 200, !.body = Some(Held(t))]]
    /\ UNCHANGED store

\* the steps of get_job_status that thread t runs after the request came in
StatusStep(t) == StatusReturn(t) \/ StatusSerialize(t)

\* -------------------------------------------------------------- reaper
\* The periodic reaper: evictOlderThan(maxAge) with a configured maximum age.
ReaperThread == "t3"
Workers == Threads \ {ReaperThread}

Reaper(t) ==
    /\ t = ReaperThread
    /\ \E max_age_hours \in MaxAges : CallCleanup(t, max_age_hours)
    /\ UNCHANGED app

\* -------------------------------------------------------------- SpecSys
\* The asynchronous path of the service: workers serve POST /titanic_async
\* (each runs the background task it added once it has answered) while the
\* reaper sweeps.
NextSys ==
    \/ Tick
    \/ \E t \in Workers : PredictAsync(t)
    \/ \E t \in Workers : AsyncRespond(t)
    \/ \E t \in Workers : TaskStart(t)
    \/ \E t \in Workers : TaskPredict(t)
    \/ \E t \in Workers : TaskComplete(t)
    \/ \E t \in Workers : TaskFail(t)
    \/ \E t \in Workers : TaskEnd(t)
    \/ \E t \in Threads : Reaper(t)
    \/ \E t \in Threads : Step(t) /\ UNCHANGED app

SpecSys == Init /\ [][NextSys]_vars

\* -------------------------------------------------------------- SpecApp
\* The asynchronous path as main.py runs it: nothing in main.py calls
\* cleanup_old_jobs, so no job is ever swept.
WriterStep(t) ==
    \/ CreateBuild(t) \/ CreateAcquire(t) \/ CreateInsert(t)
    \/ UpdLookup(t) \/ UpdStatus(t) \/ UpdTime(t)
    \/ CompLookup(t) \/ CompStatus(t) \/ CompResult(t) \/ CompTime(t)
    \/ FailLookup(t) \/ FailStatus(t) \/ FailError(t) \/ FailTime(t)

\* the steps of the code of main.py that worker t runs after a request came in
TaskStep(t) ==
    \/ AsyncRespond(t) \/ TaskStart(t) \/ TaskPredict(t)
    \/ TaskComplete(t) \/ TaskFail(t) \/ TaskEnd(t)

NextApp ==
    \/ Tick
    \/ \E t \in Workers : PredictAsync(t)
    \/ \E t \in Workers : TaskStep(t)
    \/ \E t \in Workers : WriterStep(t) /\ UNCHANGED app

SpecApp == Init /\ [][NextApp]_vars

\* Scheduling: the clock runs, every worker that can take a step of its
\* handler or task eventually takes it, and every call into the job manager
\* goes on: a thread that finds the lock free again and again eventually gets
\* it, and a thread that holds the lock leaves the block.
FairTime == WF_vars(Tick)
FairWorkers == \A t \in Workers : WF_vars(TaskStep(t))
FairCalls == \A t \in Threads : SF_vars(Step(t) /\ UNCHANGED app)

SpecAppFair == SpecApp /\ FairTime /\ FairWorkers /\ FairCalls

\* The asynchronous path with one worker next to the reaper.
SoloWorker == "t1"

NextSolo ==
    \/ Tick
    \/ PredictAsync(SoloWorker)
    \/ TaskStep(SoloWorker)
    \/ \E t \in Threads : Reaper(t)
    \/ \E t \in {SoloWorker, ReaperThread} : Step(t) /\ UNCHANGED app

SpecSolo == Init /\ [][NextSolo]_vars

SpecSoloFair == SpecSolo /\ FairTime /\ FairWorkers /\ FairCalls

\* ------------------------------------------------------------- SpecRead
\* One worker serves POST /titanic_async and runs the background tasks while
\* another thread serves GET /jobs/{job_id}. No job is replaced or deleted
\* here, so the object under a key stays the same object.
Poller == "t2"

NextRead ==
    \/ Tick
    \/ PredictAsync(SoloWorker)
    \/ TaskStep(SoloWorker)
    \/ \E job_id \in JobIds : GetJobStatus(Poller, job_id)
    \/ StatusStep(Poller)
    \/ WriterStep(SoloWorker) /\ UNCHANGED app
    \/ (GetAcquire(Poller) \/ GetRead(Poller)) /\ UNCHANGED app

SpecRead == Init /\ [][NextRead]_vars

\* ======================================================================
\* Properties of the job store (Spec)
\* ======================================================================
\* no call to the job manager is in progress
Quiescent == \A t \in Threads : pc[t] = "idle"

\* the step with which a call of thread t returns
Returns(t, op) == pc[t] # "idle" /\ pc'[t] = "idle" /\ local[t].op = op

\* C1: after any sequence of create, setStatus, complete, fail and evict calls,
\* every stored job has a result iff its status is Completed and an error iff
\* its status is Failed; so result and error are never both present.
C1_ResultErrorMatchStatus ==
    Quiescent =>
        \A i \in DOMAIN jobs :
            /\ (jobs[i].result # None) <=> (jobs[i].status = COMPLETED)
            /\ (jobs[i].error # None) <=> (jobs[i].status = FAILED)
            /\ ~(jobs[i].result # None /\ jobs[i].error # None)

\* C2: complete(id, r) on an existing job leaves it Completed with result r and
\* no error; fail(id, e) leaves it Failed with error e and no result.
C2_MutuallyOverwriting ==
    [][\A t \in Threads :
        /\ (Returns(t, "complete") /\ local[t].job_id \in DOMAIN jobs) =>
              LET j == jobs'[local[t].job_id] IN
              j.status = COMPLETED /\ j.result = local[t].result /\ j.error = None
        /\ (Returns(t, "fail") /\ local[t].job_id \in DOMAIN jobs) =>
              LET j == jobs'[local[t].job_id] IN
              j.status = FAILED /\ j.error = local[t].error /\ j.result = None]_vars

\* the time cleanup_old_jobs read when it started
SweepNow(t) == local[t].cutoff_time + local[t].max_age_hours

\* the dict d without the keys in ks, every other entry as it was
Without(d, ks) == [i \in (DOMAIN d) \ ks |-> d[i]]

\* C3 as claimed: the sweep removes exactly the jobs with
\* now - created_at >= maxAge and leaves every other job unchanged.
C3_EvictsAtOrOverMaxAge ==
    [][\A t \in Threads : Returns(t, "evict") =>
        jobs' = Without(jobs, {i \in DOMAIN jobs :
                    SweepNow(t) - jobs[i].created_at >= local[t].max_age_hours})]_vars

\* C3 amended: the sweep removes exactly the jobs with now - created_at > maxAge
\* (a job whose age equals maxAge is kept) and leaves every other job unchanged.
C3_EvictsOverMaxAge ==
    [][\A t \in Threads : Returns(t, "evict") =>
        jobs' = Without(jobs, {i \in DOMAIN jobs :
                    SweepNow(t) - jobs[i].created_at > local[t].max_age_hours})]_vars

\* a sweep has removed a job and kept a job whose age equals maxAge
C3_Witness ==
    \E t \in Threads :
        /\ pc[t] = "idle" /\ local[t].op = "evict"
        /\ local[t].jobs_to_remove # {}
        /\ \E i \in DOMAIN jobs : jobs[i].created_at = local[t].cutoff_time

\* C4: the sweep deletes every job created before the cutoff whatever its
\* status, and returns the number of jobs it removed (size before - size after).
C4_UnconditionalSweepCount ==
    [][\A t \in Threads : Returns(t, "evict") =>
        /\ \A i \in DOMAIN jobs :
              jobs[i].created_at < local[t].cutoff_time => i \notin DOMAIN jobs'
        /\ local'[t].count = Cardinality(DOMAIN jobs) - Cardinality(DOMAIN jobs')]_vars

\* a sweep has removed two jobs, one unfinished and one finished
C4_Witness ==
    \E t \in Threads :
        /\ pc[t] = "idle" /\ local[t].op = "evict" /\ local[t].count = 2
        /\ local[t].removed \cap {PENDING, PROCESSING} # {}
        /\ local[t].removed \cap {COMPLETED, FAILED} # {}

\* C5 as claimed: create with an id that is already stored fails (returns no
\* job) and leaves the store unchanged.
C5_DuplicateCreateRejected ==
    [][\A t \in Threads : (Returns(t, "create") /\ local[t].job_id \in DOMAIN jobs) =>
        jobs' = jobs /\ local'[t].ret = None]_vars

\* C5 amended: create with an id that is already stored does not fail; it
\* replaces the stored job by a new Pending job without result or error whose
\* created_at and updated_at are the time of this call, returns that job, and
\* leaves every other job unchanged.
C5_DuplicateCreateOverwrites ==
    [][\A t \in Threads : (Returns(t, "create") /\ local[t].job_id \in DOMAIN jobs) =>
        LET id == local[t].job_id IN
        /\ DOMAIN jobs' = DOMAIN jobs
        /\ \A i \in DOMAIN jobs \ {id} : jobs'[i] = jobs[i]
        /\ jobs'[id].id = id /\ jobs'[id].status = PENDING
        /\ jobs'[id].result = None /\ jobs'[id].error = None
        /\ jobs'[id].created_at = jobs'[id].updated_at
        /\ jobs'[id].created_at >= jobs[id].created_at
        /\ local'[t].ret = Some(jobs'[id])]_vars

\* a second create has replaced a finished job
C5_Witness ==
    \E t \in Threads :
        /\ pc[t] = "idle" /\ local[t].op = "create"
        /\ local[t].replaced \in {Some(COMPLETED), Some(FAILED)}
        /\ jobs[local[t].job_id].status = PENDING

\* C7: get for an id that is not stored (never created, or evicted) returns
\* None, which get_job_status answers with 404; and no step of get changes
\* the store.
C7_GetNotFound ==
    [][\A t \in Threads :
        /\ (local'[t].op = "get" /\ pc'[t] # pc[t]) => jobs' = jobs
        /\ (Returns(t, "get") /\ local[t].job_id \notin DOMAIN jobs) =>
              /\ local'[t].ret = None
              /\ GetJobStatusResponse(local'[t].ret).status_code = 404]_vars

\* get has answered None for an id that was created and has been evicted
C7_Witness ==
    \E t \in Threads :
        /\ pc[t] = "idle" /\ local[t].op = "get" /\ local[t].ret = None
        /\ local[t].job_id \in created /\ local[t].job_id \notin DOMAIN jobs

\* C9: a get(id) that takes effect right after create(id) returns a job with
\* that id, status Pending, no result, no error and created_at = updated_at.
C9_CreateThenGet ==
    [][\A t \in Threads : (Returns(t, "get") /\ fresh = Some(local[t].job_id)) =>
        /\ local'[t].ret # None
        /\ LET j == Val(local'[t].ret) IN
           /\ j.id = local[t].job_id /\ j.status = PENDING
           /\ j.result = None /\ j.error = None
           /\ j.created_at = j.updated_at]_vars

\* a get has returned right after the create of the same id
C9_Witness ==
    \E t \in Threads :
        /\ pc[t] = "idle" /\ local[t].op = "get" /\ local[t].after_create
        /\ local[t].ret # None

\* ======================================================================
\* Concurrent creates (SpecCreate)
\* ======================================================================
\* the threads whose create_job has returned
Created == {t \in Threads : pc[t] = "idle" /\ local[t].op = "create"}

\* C6: when the N threads create N distinct ids concurrently, the store holds
\* exactly the jobs of the creates that have returned, each with its own id,
\* status Pending and neither result nor error; once all have returned it
\* holds exactly the N jobs.
C6_ConcurrentCreates ==
    /\ DOMAIN jobs = {CreateId(t) : t \in Created}
    /\ \A t \in Created :
          LET j == jobs[CreateId(t)] IN
          /\ j.id = CreateId(t) /\ j.status = PENDING
          /\ j.result = None /\ j.error = None
          /\ local[t].ret = Some(j)
    /\ (Created = Threads => Cardinality(DOMAIN jobs) = Cardinality(Threads))

\* all creates have returned, and they did not all run at the same time
C6_Witness ==
    /\ Created = Threads
    /\ Cardinality(DOMAIN jobs) = Cardinality(Threads)
    /\ \E i, k \in DOMAIN jobs : jobs[i].created_at # jobs[k].created_at

\* ======================================================================
\* The asynchronous path (SpecSys)
\* ======================================================================
\* C8: setStatus, complete and fail for an id that is not stored return None
\* and leave the whole store unchanged; so a background task whose job was
\* evicted ends normally and an evicted job never comes back.
C8_WriteToAbsentIsNoOp ==
    [][/\ \A t \in Threads :
            (/\ pc[t] \in {"upd_lookup", "comp_lookup", "fail_lookup"}
             /\ pc'[t] # pc[t]
             /\ local[t].job_id \notin DOMAIN jobs)
            => (pc'[t] = "idle" /\ local'[t].ret = None /\ jobs' = jobs)
       /\ \A i \in created \ DOMAIN jobs : i \notin DOMAIN jobs']_vars

\* a background task has written its outcome after its job was evicted
C8_Witness ==
    \E t \in Workers :
        /\ app[t].pc \in {"task_complete", "task_fail"}
        /\ pc[t] = "idle" /\ local[t].ret = None
        /\ app[t].job_id \in created /\ app[t].job_id \notin DOMAIN jobs

\* C10: a job enters the store Pending; its status only moves from Pending to
\* Processing and from Processing to Completed or to Failed; and no setStatus,
\* complete or fail is called for a stored job that is Completed or Failed.
C10_StatusHistory ==
    [][/\ \A i \in DOMAIN jobs' \ DOMAIN jobs : jobs'[i].status = PENDING
       /\ \A i \in DOMAIN jobs \cap DOMAIN jobs' :
            jobs'[i].status # jobs[i].status =>
                <<jobs[i].status, jobs'[i].status>> \in
                    {<<PENDING, PROCESSING>>, <<PROCESSING, COMPLETED>>, <<PROCESSING, FAILED>>}
       /\ \A t \in Threads :
            (pc[t] = "idle" /\ pc'[t] \in {"upd_lookup", "comp_lookup", "fail_lookup"}) =>
                \/ local'[t].job_id \notin DOMAIN jobs
                \/ jobs[local'[t].job_id].status \notin {COMPLETED, FAILED}]_vars

\* both tasks have ended, one job Completed and one Failed
C10_Witness ==
    /\ \A t \in Threads : app[t].pc = "idle" /\ pc[t] = "idle"
    /\ \E i, k \in DOMAIN jobs : jobs[i].status = COMPLETED /\ jobs[k].status = FAILED

\* ======================================================================
\* Progress of the background task (SpecSoloFair)
\* ======================================================================
\* the complete_job or fail_job call of the task of worker t has returned
Reported(t) == app[t].pc \in {"task_complete", "task_fail"} /\ pc[t] = "idle"

\* C11: every background task that starts ends with a complete_job or a
\* fail_job call (an exception of the prediction leads to fail_job), and every
\* stored job eventually is Completed or Failed unless it is evicted.
C11_TaskReportsOutcome ==
    /\ \A t \in Workers : (app[t].pc = "task_start") ~> Reported(t)
    /\ \A t \in Workers : (app[t].pc = "task_except") ~> (app[t].pc = "task_fail" /\ pc[t] = "idle")
    /\ \A i \in JobIds :
          (i \in DOMAIN jobs) ~> (i \notin DOMAIN jobs \/ jobs[i].status \in {COMPLETED, FAILED})

\* the prediction of a task raised, and fail_job has marked its job Failed
C11_Witness ==
    \E t \in Workers :
        /\ app[t].pc = "task_fail" /\ pc[t] = "idle"
        /\ local[t].ret # None
        /\ app[t].job_id \in DOMAIN jobs
        /\ jobs[app[t].job_id].status = FAILED
        /\ jobs[app[t].job_id].error = app[t].error

\* ======================================================================
\* Readers next to writers (SpecRead)
\* ======================================================================
\* a writer has assigned some but not all of the fields it assigns to job_id
MidWrite(job_id) ==
    \E u \in Threads :
        /\ local[u].job_id = job_id
        /\ pc[u] \in {"upd_time", "comp_result", "comp_time", "fail_error", "fail_time"}

\* C12: a caller that reads a job it got from get while another thread runs
\* setStatus, complete or fail on it never sees a partially updated job: not a
\* job in the middle of a writer's assignments, so never Completed without a
\* result nor Failed without an error.
C12_NoPartialRead ==
    [][\A t \in Threads :
        (app[t].pc = "status_return" /\ app'[t].pc # "status_return") =>
            LET j == Val(app'[t].body) IN
            /\ ~MidWrite(j.id)
            /\ j.status = COMPLETED => j.result # None
            /\ j.status = FAILED => j.error # None]_vars

\* C13: the Job a caller got from get is a snapshot: as long as the caller
\* holds it, no later call of the job manager changes it.
C13_ReturnedJobIsSnapshot ==
    [][\A t \in Threads :
        (app[t].job # None /\ app'[t].job = app[t].job) => Held(t)' = Held(t)]_vars

\* ======================================================================
\* Expiry (SpecAppFair)
\* ======================================================================
\* C14: a reaper started with the service keeps calling cleanup_old_jobs with
\* the configured maximum age, so every stored job whose age has passed that
\* maximum is eventually deleted.
C14_ExpiredJobsAreSwept ==
    \A i \in JobIds : \A max_age_hours \in MaxAges :
        (i \in DOMAIN jobs /\ clock - jobs[i].created_at > max_age_hours)
            ~> (i \notin DOMAIN jobs)
====
